---- MODULE Spec2Model ----
(***************************************************************************)
(* Model of ply.py: main(file1, file2) checks that both paths exist,       *)
(* prints each file (print_ply_info), compares the two clouds              *)
(* (compare_point_clouds) and shows each cloud filtered by height          *)
(* (visualize_point_cloud).                                                *)
(*                                                                         *)
(* Spec        the run of main on two files                                *)
(* SpecFilter  visualize_point_cloud called with any threshold, and its    *)
(*             filter applied a second time to its own result              *)
(* SpecCompare compare_point_clouds called on two loaded clouds            *)
(***************************************************************************)
EXTENDS Integers, Sequences, FiniteSets

VARIABLES files, z_threshold, pc, checked, loads, errors, report, shown,
          refiltered, uncaught

vars == <<files, z_threshold, pc, checked, loads, errors, report, shown,
          refiltered, uncaught>>

(***************************************************************************)
(* Bounds of the model.                                                    *)
(***************************************************************************)
MaxLen == 3        \* points of a cloud given to the height filter
MaxPoints == 2     \* points of a cloud given to the comparison

(***************************************************************************)
(* float64 coordinates: a few finite values, the two infinities and NaN.   *)
(* The infinities are encoded as integers beyond every finite value, NaN   *)
(* as a value that every comparison treats as unordered.                   *)
(***************************************************************************)
Finite == {-1, 0, 1}
PosInf == (CHOOSE v \in Finite : \A w \in Finite : w <= v) + 1
NegInf == (CHOOSE v \in Finite : \A w \in Finite : v <= w) - 1
NaN == PosInf + 1
Float == Finite \cup {PosInf, NegInf, NaN}

isnan(v) == v = NaN
isinf(v) == v \in {PosInf, NegInf}

\* The mutant of FloatGt: a non-strict comparison.
FloatGe(a, b) == ~isnan(a) /\ ~isnan(b) /\ a >= b

\* a > b on floats: false as soon as one side is NaN.
FloatGt(a, b) == ~isnan(a) /\ ~isnan(b) /\ a > b

\* np.minimum / np.maximum of two floats: NaN propagates.
np_minimum(a, b) == IF isnan(a) \/ isnan(b) THEN NaN ELSE IF b < a THEN b ELSE a
np_maximum(a, b) == IF isnan(a) \/ isnan(b) THEN NaN ELSE IF b > a THEN b ELSE a

(***************************************************************************)
(* Point clouds: positions <<x, y, z>> and colors, one per point or none.  *)
(***************************************************************************)
Colors == {"red", "green"}
EmptyCloud == [points |-> <<>>, colors |-> <<>>]

SeqsUpTo(S, n) == UNION {[1..k -> S] : k \in 0..n}

\* cloud.has_colors(): the cloud has points and one color for each.
has_colors(cloud) ==
    Len(cloud.points) > 0 /\ Len(cloud.colors) = Len(cloud.points)

\* points[:, 2] > z_threshold: the boolean mask, one entry per point.
Mask(points, t) == [i \in 1..Len(points) |-> FloatGt(points[i][3], t)]

\* The mutant of BoolIndex: the selected rows come out in reverse order.
RECURSIVE BoolIndexReversed(_, _)
BoolIndexReversed(arr, mask) ==
    IF arr = <<>> THEN <<>>
    ELSE LET rest == BoolIndexReversed(Tail(arr), Tail(mask))
         IN  IF Head(mask) THEN rest \o <<Head(arr)>> ELSE rest

\* arr[mask]: the rows of arr whose mask entry is true, in order.
RECURSIVE BoolIndex(_, _)
BoolIndex(arr, mask) ==
    IF arr = <<>> THEN <<>>
    ELSE LET rest == BoolIndex(Tail(arr), Tail(mask))
         IN  IF Head(mask) THEN <<Head(arr)>> \o rest ELSE rest

\* The mutant of FilterCloud: the colors are copied unfiltered.
FilterCloudAllColors(cloud, t) ==
    [points |-> BoolIndex(cloud.points, Mask(cloud.points, t)),
     colors |-> IF has_colors(cloud) THEN cloud.colors ELSE <<>>]

\* The filtered cloud that visualize_point_cloud builds from a loaded cloud.
FilterCloud(cloud, t) ==
    LET points == cloud.points
        filtered_points == BoolIndex(points, Mask(points, t))
    IN  [points |-> filtered_points,
         colors |-> IF has_colors(cloud)
                    THEN BoolIndex(cloud.colors, Mask(points, t))
                    ELSE <<>>]

(***************************************************************************)
(* Files: a path is missing, holds something the loader cannot parse, or   *)
(* holds a point cloud.                                                    *)
(***************************************************************************)
MissingFile == [kind |-> "missing", cloud |-> EmptyCloud]
CorruptFile == [kind |-> "corrupt", cloud |-> EmptyCloud]
PlyFile(c) == [kind |-> "ply", cloud |-> c]

os_path_exists(f) == files[f].kind # "missing"

\* The mutant of AnyMissing: the run stops only when both paths are missing.
BothMissing == ~os_path_exists(1) /\ ~os_path_exists(2)

\* not os.path.exists(file1) or not os.path.exists(file2)
AnyMissing == ~os_path_exists(1) \/ ~os_path_exists(2)

\* PyntCloud.from_file / o3d.io.read_point_cloud raise on this file.
LoadFails(f) == files[f].kind # "ply"

Unset == <<>>
NoReport == [size |-> [i \in 1..2 |-> Unset], min |-> [i \in 1..2 |-> Unset],
             max |-> [i \in 1..2 |-> Unset], invalid |-> [i \in 1..2 |-> Unset]]

Error(msg, paths) == [msg |-> msg, paths |-> paths]
Load(by, f) == [by |-> by, file |-> f]

(***************************************************************************)
(* compare_point_clouds                                                    *)
(***************************************************************************)
Column(points, k) == [i \in 1..Len(points) |-> points[i][k]]

\* np.max over one non-empty column.
RECURSIVE np_max(_)
np_max(col) ==
    IF Len(col) = 1 THEN col[1]
    ELSE np_maximum(np_max(SubSeq(col, 1, Len(col) - 1)), col[Len(col)])

\* The mutant of np_min: the reduction of np.max is used for the minimum.
np_min_swapped(col) == np_max(col)

\* np.min over one non-empty column.
RECURSIVE np_min(_)
np_min(col) ==
    IF Len(col) = 1 THEN col[1]
    ELSE np_minimum(np_min(SubSeq(col, 1, Len(col) - 1)), col[Len(col)])

\* np.min(points, axis=0), np.max(points, axis=0) of a non-empty array.
np_min_axis0(points) == [k \in 1..3 |-> np_min(Column(points, k))]
np_max_axis0(points) == [k \in 1..3 |-> np_max(Column(points, k))]

\* The mutant of Invalid: only NaN is looked for.
InvalidNaNOnly(points) ==
    \E i \in 1..Len(points) : \E k \in 1..3 : isnan(points[i][k])

\* np.isnan(points).any() or np.isinf(points).any()
Invalid(points) ==
    \/ \E i \in 1..Len(points) : \E k \in 1..3 : isnan(points[i][k])
    \/ \E i \in 1..Len(points) : \E k \in 1..3 : isinf(points[i][k])

\* The whole call. Both files are loaded again, outside any try: a load
\* error leaves main as an uncaught exception. The sizes are logged before
\* the ranges are computed, and np.min over an empty array raises ValueError.
ComparePointClouds ==
    /\ pc = "compare"
    /\ LET points1 == files[1].cloud.points
           points2 == files[2].cloud.points
       IN  IF LoadFails(1)
           THEN /\ loads' = Append(loads, Load("compare_point_clouds", 1))
                /\ uncaught' = "LoadError"
                /\ pc' = "raised"
                /\ report' = report
           ELSE IF LoadFails(2)
           THEN /\ loads' = loads \o <<Load("compare_point_clouds", 1),
                                       Load("compare_point_clouds", 2)>>
                /\ uncaught' = "LoadError"
                /\ pc' = "raised"
                /\ report' = report
           ELSE /\ loads' = loads \o <<Load("compare_point_clouds", 1),
                                       Load("compare_point_clouds", 2)>>
                /\ IF points1 = <<>> \/ points2 = <<>>
                   THEN /\ report' = [report EXCEPT
                               !.size = <<<<Len(points1)>>, <<Len(points2)>>>>]
                        /\ uncaught' = "ValueError"
                        /\ pc' = "raised"
                   ELSE /\ report' =
                             [size |-> <<<<Len(points1)>>, <<Len(points2)>>>>,
                              min |-> <<<<np_min_axis0(points1)>>,
                                        <<np_min_axis0(points2)>>>>,
                              max |-> <<<<np_max_axis0(points1)>>,
                                        <<np_max_axis0(points2)>>>>,
                              invalid |-> <<<<Invalid(points1)>>,
                                            <<Invalid(points2)>>>>]
                        /\ uncaught' = uncaught
                        /\ pc' = "visualize1"
    /\ UNCHANGED <<files, z_threshold, checked, errors, shown, refiltered>>

(***************************************************************************)
(* print_ply_info: the whole body is inside try/except Exception.          *)
(***************************************************************************)
PrintPlyInfo(f) ==
    /\ pc = IF f = 1 THEN "print1" ELSE "print2"
    /\ loads' = Append(loads, Load("print_ply_info", f))
    /\ errors' = IF LoadFails(f)
                 THEN Append(errors, Error("Error reading", {f}))
                 ELSE errors
    /\ pc' = IF f = 1 THEN "print2" ELSE "compare"
    /\ UNCHANGED <<files, z_threshold, checked, report, shown, refiltered,
                   uncaught>>

(***************************************************************************)
(* visualize_point_cloud: load, filter, draw, all inside try/except. The   *)
(* reader either raises on a file it cannot parse or hands back an empty   *)
(* cloud; the viewer may fail (no display).                                *)
(***************************************************************************)
AfterVisualize(f) == IF f = 1 THEN "visualize2" ELSE "returned"

VisualizePointCloud(f) ==
    /\ pc = IF f = 1 THEN "visualize1" ELSE "visualize2"
    /\ loads' = Append(loads, Load("visualize_point_cloud", f))
    /\ \E read_raises \in BOOLEAN, draw_raises \in BOOLEAN :
         IF LoadFails(f) /\ read_raises
         THEN /\ errors' = Append(errors, Error("Error visualizing", {f}))
              /\ shown' = shown
         ELSE /\ shown' = Append(shown, FilterCloud(files[f].cloud, z_threshold))
              /\ errors' = IF draw_raises
                           THEN Append(errors, Error("Error visualizing", {f}))
                           ELSE errors
    /\ pc' = AfterVisualize(f)
    /\ UNCHANGED <<files, z_threshold, checked, report, refiltered, uncaught>>

\* The filter of visualize_point_cloud applied to the cloud it produced.
Refilter ==
    /\ pc = "returned"
    /\ shown # <<>>
    /\ refiltered = <<>>
    /\ refiltered' = <<FilterCloud(shown[Len(shown)], z_threshold)>>
    /\ UNCHANGED <<files, z_threshold, pc, checked, loads, errors, report,
                   shown, uncaught>>

(***************************************************************************)
(* main: the existence check. `or` evaluates its second operand only when  *)
(* file1 exists; the error message names no path.                          *)
(***************************************************************************)
MainCheckExists ==
    /\ pc = "main"
    /\ checked' = IF os_path_exists(1) THEN {1, 2} ELSE {1}
    /\ IF AnyMissing
       THEN /\ errors' = Append(errors,
                                Error("One or both files do not exist.", {}))
            /\ pc' = "returned"
       ELSE /\ errors' = errors
            /\ pc' = "print1"
    /\ UNCHANGED <<files, z_threshold, loads, report, shown, refiltered,
                   uncaught>>

(***************************************************************************)
(* Inputs.                                                                 *)
(***************************************************************************)
\* Clouds whose points differ in height only, with or without colors.
HeightPoints == {<<0, 0, z>> : z \in Float}
HeightClouds ==
    {[points |-> p, colors |-> <<>>] : p \in SeqsUpTo(HeightPoints, MaxLen)}
    \cup UNION {{[points |-> p, colors |-> c] : c \in [1..Len(p) -> Colors]} :
                  p \in SeqsUpTo(HeightPoints, MaxLen) \ {<<>>}}

\* Clouds whose points lie on the axes, any float on each axis.
AxisPoints == {<<v, 0, 0>> : v \in Float} \cup {<<0, v, 0>> : v \in Float}
              \cup {<<0, 0, v>> : v \in Float}
AxisClouds ==
    {[points |-> p, colors |-> <<>>] : p \in SeqsUpTo(AxisPoints, MaxPoints)}

\* A few clouds: empty, finite, colored, with a NaN, with an infinity.
SampleClouds ==
    {EmptyCloud,
     [points |-> <<<<0, 0, 1>>>>, colors |-> <<>>],
     [points |-> <<<<1, 0, -1>>, <<0, 1, 1>>>>, colors |-> <<"red", "green">>],
     [points |-> <<<<NaN, 0, 1>>>>, colors |-> <<>>],
     [points |-> <<<<0, PosInf, 0>>, <<0, 0, 1>>>>, colors |-> <<>>]}
SampleFiles == {MissingFile, CorruptFile} \cup {PlyFile(c) : c \in SampleClouds}

Fresh ==
    /\ checked = {}
    /\ loads = <<>>
    /\ errors = <<>>
    /\ report = NoReport
    /\ shown = <<>>
    /\ refiltered = <<>>
    /\ uncaught = "none"

\* main(file1, file2); visualize_point_cloud is called with its default
\* z_threshold=0.
Init ==
    /\ files \in [1..2 -> SampleFiles]
    /\ z_threshold = 0
    /\ pc = "main"
    /\ Fresh

Next ==
    \/ MainCheckExists
    \/ \E f \in 1..2 : PrintPlyInfo(f)
    \/ ComparePointClouds
    \/ \E f \in 1..2 : VisualizePointCloud(f)

Spec == Init /\ [][Next]_vars

\* visualize_point_cloud(file2, z_threshold) on its own, for any threshold.
InitFilter ==
    /\ files \in {<<MissingFile, f>> :
                    f \in {CorruptFile} \cup {PlyFile(c) : c \in HeightClouds}}
    /\ z_threshold \in Float
    /\ pc = "visualize2"
    /\ Fresh

NextFilter ==
    \/ VisualizePointCloud(2)
    \/ Refilter

SpecFilter == InitFilter /\ [][NextFilter]_vars

\* compare_point_clouds(file1, file2) on its own: one cloud from AxisClouds,
\* the other from the samples, in either position.
InitCompare ==
    /\ files \in {<<PlyFile(a), s>> : a \in AxisClouds, s \in SampleFiles \ {MissingFile}}
           \cup {<<s, PlyFile(a)>> : a \in AxisClouds, s \in SampleFiles \ {MissingFile}}
    /\ z_threshold = 0
    /\ pc = "compare"
    /\ Fresh

NextCompare == ComparePointClouds

SpecCompare == InitCompare /\ [][NextCompare]_vars

(***************************************************************************)
(* Vocabulary of the properties.                                           *)
(***************************************************************************)
Source == files[2].cloud

\* The indices of the points whose height is a number strictly above t.
Above(points, t) ==
    {i \in 1..Len(points) :
        /\ points[i][3] # NaN
        /\ t # NaN
        /\ points[i][3] - t > 0}

\* The j-th smallest element of a set of indices.
Nth(S, j) == CHOOSE i \in S : Cardinality({k \in S : k <= i}) = j

\* The rows of arr at the indices of S, in increasing order of index.
Rows(arr, S) == [j \in 1..Cardinality(S) |-> arr[Nth(S, j)]]

Filtered == pc = "returned" /\ files[2].kind = "ply"

Heights(cloud) == [i \in 1..Len(cloud.points) |-> cloud.points[i][3]]

(***************************************************************************)
(* Properties of the height filter, under SpecFilter.                      *)
(***************************************************************************)
\* C1: the filter keeps exactly the points whose z is strictly greater
\* than the threshold, in their original relative order; it hands a cloud
\* to the viewer for every source and threshold, an empty one when no point
\* passes.
C1_FilterKeepsStrictlyAbove ==
    Filtered =>
        /\ Len(shown) = 1
        /\ shown[1].points = Rows(Source.points, Above(Source.points, z_threshold))

\* C1 happens: heights -1, 0, 1 under threshold 0 leave the point at 1.
C1_Witness ==
    /\ Filtered
    /\ z_threshold = 0
    /\ Heights(Source) = <<-1, 0, 1>>
    /\ Heights(shown[1]) = <<1>>

\* C2: a source with colors yields as many colors as positions, the j-th
\* color being the one that was paired with the j-th surviving point; a
\* source without colors yields no colors.
C2_ColorsFollowPoints ==
    Filtered =>
        LET out == shown[1]
            kept == Above(Source.points, z_threshold)
        IN  IF Source.colors # <<>>
            THEN /\ Len(out.colors) = Len(out.points)
                 /\ \A j \in 1..Len(out.points) :
                        /\ out.points[j] = Source.points[Nth(kept, j)]
                        /\ out.colors[j] = Source.colors[Nth(kept, j)]
            ELSE out.colors = <<>>

\* C2 happens: three colored points, only the green one survives.
C2_Witness ==
    /\ Filtered
    /\ z_threshold = 0
    /\ Heights(Source) = <<-1, 1, 0>>
    /\ Source.colors = <<"red", "green", "red">>
    /\ shown[1].colors = <<"green">>

\* C9: filtering the filtered cloud again with the same threshold returns
\* the same cloud, positions and colors.
C9_FilterIdempotent ==
    refiltered # <<>> => refiltered[1] = shown[Len(shown)]

\* C9 happens: a colored cloud lost a point and kept two different ones,
\* and was filtered a second time.
C9_Witness ==
    /\ refiltered # <<>>
    /\ Len(Source.points) = 3
    /\ Len(shown[1].points) = 2
    /\ shown[1].points[1] # shown[1].points[2]
    /\ shown[1].colors = <<"red", "green">>

(***************************************************************************)
(* Properties of main, under Spec.                                         *)
(***************************************************************************)
Missing(f) == files[f].kind = "missing"
LoadedBy(who) == {n \in 1..Len(loads) : loads[n].by = who}
ReadErrors == {n \in 1..Len(errors) : errors[n].msg = "Error reading"}

\* C3: when a path is missing no loader is ever invoked and no print,
\* compare or visualize step runs: the run ends at the existence check.
C3_NoLoadWhenMissing ==
    (Missing(1) \/ Missing(2)) =>
        /\ loads = <<>>
        /\ shown = <<>>
        /\ report = NoReport
        /\ uncaught = "none"
        /\ pc \in {"main", "returned"}

\* C3 happens: file1 holds a cloud, file2 is missing, main has returned.
C3_Witness ==
    /\ files[1].kind = "ply"
    /\ Missing(2)
    /\ pc = "returned"
    /\ Len(errors) = 1

\* C4: when main stops for missing paths, both paths were checked and the
\* error names exactly the missing ones.
C4_MissingPathsReported ==
    (pc = "returned" /\ (Missing(1) \/ Missing(2))) =>
        /\ checked = {1, 2}
        /\ \E n \in 1..Len(errors) :
               errors[n].paths = {f \in 1..2 : Missing(f)}

\* C5: when both paths exist no loader failure leaves main uncaught, and a
\* run in which a file could not be parsed still goes on to visualize both
\* files.
C5_FailuresCaught ==
    (~Missing(1) /\ ~Missing(2)) =>
        /\ uncaught # "LoadError"
        /\ (pc \in {"returned", "raised"} /\ \E f \in 1..2 : LoadFails(f)) =>
               \A f \in 1..2 :
                   \E n \in LoadedBy("visualize_point_cloud") : loads[n].file = f

\* C6: once a load has failed in print_ply_info, compare_point_clouds is
\* not invoked.
C6_NoCompareAfterLoadFailure ==
    ReadErrors # {} => LoadedBy("compare_point_clouds") = {}

(***************************************************************************)
(* Properties of compare_point_clouds, under SpecCompare.                  *)
(***************************************************************************)
Points(i) == files[i].cloud.points
Compared == pc # "compare" /\ files[1].kind = "ply" /\ files[2].kind = "ply"
BadCoordinate(i) ==
    \E n \in 1..Len(Points(i)) : \E k \in 1..3 :
        Points(i)[n][k] \in {NaN, PosInf, NegInf}

\* C7: an empty cloud is accepted: the call does not raise, reports size 0
\* and some extent for it, and reports the other cloud's size, extent and
\* invalid flag.
C7_EmptyCloudAccepted ==
    \A i \in 1..2 :
        (Compared /\ Points(i) = <<>>) =>
            /\ uncaught = "none"
            /\ report.size[i] = <<0>>
            /\ report.min[i] # Unset /\ report.max[i] # Unset
            /\ report.size[3 - i] = <<Len(Points(3 - i))>>
            /\ report.min[3 - i] # Unset /\ report.max[3 - i] # Unset
            /\ report.invalid[3 - i] # Unset

FloatLe(a, b) == a # NaN /\ b # NaN /\ a <= b

\* C10 as claimed: the reported extent of a non-empty cloud bounds every
\* point on every axis, NaN and infinite coordinates included.
C10_ExtentBoundsEveryPoint ==
    \A i \in 1..2 :
        report.min[i] # Unset =>
            \A n \in 1..Len(Points(i)) : \A k \in 1..3 :
                /\ FloatLe(report.min[i][1][k], Points(i)[n][k])
                /\ FloatLe(Points(i)[n][k], report.max[i][1][k])

\* C10 amended: the reported extent of a non-empty cloud bounds every point
\* on every axis on which no point of the cloud has a NaN coordinate,
\* infinite coordinates included; on an axis that holds a NaN the reported
\* min and max are NaN.
C10_ExtentBoundsNaNFreeAxes ==
    \A i \in 1..2 :
        report.min[i] # Unset =>
            \A k \in 1..3 :
                IF \A n \in 1..Len(Points(i)) : Points(i)[n][k] # NaN
                THEN \A n \in 1..Len(Points(i)) :
                         /\ FloatLe(report.min[i][1][k], Points(i)[n][k])
                         /\ FloatLe(Points(i)[n][k], report.max[i][1][k])
                ELSE /\ report.min[i][1][k] = NaN
                     /\ report.max[i][1][k] = NaN

\* C10 happens: the extent is reported for a cloud with an infinite x, a
\* NaN y and a NaN-free z axis.
C10_Witness ==
    /\ report.min[1] # Unset
    /\ Points(1) = <<<<PosInf, 0, 0>>, <<0, NaN, 0>>>>
    /\ report.max[1][1][1] = PosInf
    /\ report.min[1][1][2] = NaN

====
